---- MODULE Spec2Model ----
(***************************************************************************)
(* State-machine model of commitizen's configuration loader                *)
(* (src/commitizen/config/config_loader.py, class ConfigLoader).           *)
(*                                                                         *)
(* One call of ConfigLoader()() is modelled: get_config_dirs, then         *)
(* search_config_files, then the for-loop of load_config, one step per     *)
(* statement group (open, read/close, construct, emptiness test).          *)
(* The environment (filesystem, git root, home directory, whether the      *)
(* customized directory exists) is chosen in Init.                         *)
(***************************************************************************)
EXTENDS Naturals, Sequences, FiniteSets

VARIABLES
    fs,            \* filesystem: path -> "absent" | "dir" | "empty" | "nonempty" | "malformed"
    path_exists,   \* does self._path exist on disk (customized_dir.exists())
    git_proj_root_dir, \* result of git.find_git_project_root(): a directory or None
    home_config_dir,   \* Path.home() / '.config/'
    pc,            \* position of load_config
    dirs,          \* local `dirs` of load_config
    files,         \* local `files` of load_config
    idx,           \* position of the for-loop in `files`
    f,             \* the open file object of the with-block (path and content), or closed
    data,          \* local `data`
    _config,       \* local `_config` (unbound before its first assignment)
    config,        \* local `config`, the value load_config returns
    error,         \* the exception load_config ended with, if any
    opened         \* the calls of open(): path and outcome, in order

vars == <<fs, path_exists, git_proj_root_dir, home_config_dir, pc, dirs, files,
          idx, f, data, _config, config, error, opened>>

(***************************************************************************)
(* Bounds                                                                  *)
(***************************************************************************)
\* at most this many filesystem entries carry a recognized basename
MaxEntries == 2

(***************************************************************************)
(* Values                                                                  *)
(***************************************************************************)
None == "None"

\* self._path: ConfigLoader.__init__'s default, Path.cwd(); every caller in
\* cli.py constructs ConfigLoader() without an argument.
self_path == "cwd"

Directories == {"cwd", "repo", "homecfg"}

\* defaults.config_files: the ordered catalogue of recognized basenames.
config_files == <<".cz.toml", ".cz.json", ".cz.yml">>

\* the characters of each basename, for Path.suffix and the `in` tests
NameChars(name) ==
    CASE name = ".cz.toml" -> <<".", "c", "z", ".", "t", "o", "m", "l">>
      [] name = ".cz.json" -> <<".", "c", "z", ".", "j", "s", "o", "n">>
      [] name = ".cz.yml"  -> <<".", "c", "z", ".", "y", "m", "l">>
      [] OTHER             -> <<>>

Range(s) == {s[k] : k \in 1..Len(s)}

Names == Range(config_files)

\* dir / Path(fname)
Join(dir, fname) == [dir |-> dir, name |-> fname]

Paths == {Join(d, n) : d \in Directories, n \in Names}

NoPath == [dir |-> None, name |-> None]

Kinds == {"absent", "dir", "empty", "nonempty", "malformed"}

NoError == [kind |-> "none", path |-> NoPath]

Closed == [path |-> NoPath, content |-> "absent"]

\* BaseConfig(): the default configuration, with no origin path
BaseConfig == [fmt |-> "base", path |-> NoPath, is_empty_config |-> TRUE]

\* `_config` before any branch of the dispatch has assigned it
Unbound == [fmt |-> "unbound", path |-> NoPath, is_empty_config |-> TRUE]

(***************************************************************************)
(* Pure helpers                                                            *)
(***************************************************************************)
\* str.rfind('.') on a character sequence; 0 when there is no dot
RFindDot(s) ==
    LET hits == {k \in 1..Len(s) : s[k] = "."}
    IN  IF hits = {} THEN 0 ELSE CHOOSE k \in hits : \A j \in hits : j <= k

\* PurePath.suffix: the final component's last dot-part, '' for a leading or
\* trailing dot
suffix(file) ==
    LET s == NameChars(file.name)
        k == RFindDot(s)
    IN  IF 1 < k /\ k < Len(s) THEN SubSeq(s, k, Len(s)) ELSE <<>>

\* `token in s` for strings: substring test
Contains(token, s) ==
    \E k \in 0..Len(s) :
        /\ k + Len(token) <= Len(s)
        /\ SubSeq(s, k + 1, k + Len(token)) = token

\* the if/elif chain of load_config: which class is constructed
FormatOf(file) ==
    IF Contains(<<"t", "o", "m", "l">>, suffix(file)) THEN "toml"
    ELSE IF Contains(<<"j", "s", "o", "n">>, suffix(file)) THEN "json"
    ELSE IF Contains(<<"y", "a", "m", "l">>, suffix(file)) THEN "yaml"
    ELSE "unsupported"

\* Path.exists(): true for anything present, regular file or directory
Exists(file) == fs[file] # "absent"

\* all orders in which the elements of a finite set can be iterated
Orders(S) ==
    {s \in [1..Cardinality(S) -> S] : \A a \in S : \E k \in 1..Cardinality(S) : s[k] = a}

\* the list comprehension of search_config_files for one directory
RECURSIVE FilesOfDir(_, _)
FilesOfDir(dir, k) ==
    IF k > Len(config_files) THEN <<>>
    ELSE (IF Exists(Join(dir, config_files[k]))
          THEN <<Join(dir, config_files[k])>> ELSE <<>>)
         \o FilesOfDir(dir, k + 1)

\* search_config_files: directory-major, basename-minor, kept when exists()
RECURSIVE search_config_files(_)
search_config_files(ds) ==
    IF ds = <<>> THEN <<>>
    ELSE FilesOfDir(Head(ds), 1) \o search_config_files(Tail(ds))

\* the constructors TomlConfig / JsonConfig / YAMLConfig: parse the bytes
ParseFails(bytes) == bytes = "malformed"

Parsed(fmt, bytes, file) ==
    [fmt |-> fmt, path |-> file, is_empty_config |-> (bytes = "empty")]

(***************************************************************************)
(* Initial state: the loader is constructed, the environment is arbitrary  *)
(***************************************************************************)
Init ==
    /\ \E present \in {S \in SUBSET Paths : Cardinality(S) <= MaxEntries} :
          \E kind \in [present -> Kinds \ {"absent"}] :
              fs = [p \in Paths |-> IF p \in present THEN kind[p] ELSE "absent"]
    /\ path_exists \in BOOLEAN
    /\ (~path_exists => \A n \in Names : fs[Join(self_path, n)] = "absent")
    /\ git_proj_root_dir \in {None, "cwd", "repo"}
    /\ home_config_dir \in {"cwd", "homecfg"}
    /\ pc = "get_config_dirs"
    /\ dirs = <<>>
    /\ files = <<>>
    /\ idx = 1
    /\ f = Closed
    /\ data = "absent"
    /\ _config = Unbound
    /\ config = BaseConfig
    /\ error = NoError
    /\ opened = <<>>

(***************************************************************************)
(* load_config, step by step                                               *)
(***************************************************************************)
\* dirs = self.get_config_dirs(self._path)
GetConfigDirs ==
    /\ pc = "get_config_dirs"
    /\ \E order \in Orders({git_proj_root_dir, home_config_dir}) :
          dirs' = IF path_exists THEN <<self_path>> \o order ELSE order
    /\ pc' = "search_config_files"
    /\ UNCHANGED <<fs, path_exists, git_proj_root_dir, home_config_dir, files,
                   idx, f, data, _config, config, error, opened>>

\* files = self.search_config_files(dirs); `None / Path(fname)` is a TypeError
SearchConfigFiles ==
    /\ pc = "search_config_files"
    /\ IF None \in Range(dirs)
       THEN /\ pc' = "error"
            /\ error' = [kind |-> "TypeError", path |-> NoPath]
            /\ UNCHANGED files
       ELSE /\ pc' = "open"
            /\ files' = search_config_files(dirs)
            /\ UNCHANGED error
    /\ UNCHANGED <<fs, path_exists, git_proj_root_dir, home_config_dir, dirs,
                   idx, f, data, _config, config, opened>>

\* the outcome of open(file, 'rb') on the filesystem as it is now
OpenResult(file) ==
    CASE fs[file] = "absent" -> "FileNotFoundError"
      [] fs[file] = "dir"    -> "IsADirectoryError"
      [] OTHER               -> "ok"

\* Open with a handler that passes over a file that has vanished
OpenSkipMissing ==
    /\ pc = "open"
    /\ IF idx > Len(files)
       THEN /\ pc' = "returned"
            /\ UNCHANGED <<idx, f, error, opened>>
       ELSE /\ opened' = Append(opened, [path   |-> files[idx],
                                         result |-> OpenResult(files[idx])])
            /\ IF OpenResult(files[idx]) = "FileNotFoundError"
               THEN /\ pc' = "open"
                    /\ idx' = idx + 1
                    /\ UNCHANGED <<f, error>>
               ELSE IF OpenResult(files[idx]) # "ok"
               THEN /\ pc' = "error"
                    /\ error' = [kind |-> OpenResult(files[idx]), path |-> files[idx]]
                    /\ UNCHANGED <<idx, f>>
               ELSE /\ pc' = "read"
                    /\ f' = [path |-> files[idx], content |-> fs[files[idx]]]
                    /\ UNCHANGED <<idx, error>>
    /\ UNCHANGED <<fs, path_exists, git_proj_root_dir, home_config_dir, dirs,
                   files, data, _config, config>>

\* for file in files: with open(file, 'rb') as f  -- or the loop is exhausted
\* and load_config returns config
\* (`files is None` of line 54 is never true: search_config_files returns a
\* list, and an empty list leaves the loop at once with config = BaseConfig())
Open ==
    /\ pc = "open"
    /\ IF idx > Len(files)
       THEN /\ pc' = "returned"
            /\ UNCHANGED <<f, error, opened>>
       ELSE /\ opened' = Append(opened, [path   |-> files[idx],
                                         result |-> OpenResult(files[idx])])
            /\ IF OpenResult(files[idx]) # "ok"
               THEN /\ pc' = "error"
                    /\ error' = [kind |-> OpenResult(files[idx]), path |-> files[idx]]
                    /\ UNCHANGED f
               ELSE /\ pc' = "read"
                    /\ f' = [path |-> files[idx], content |-> fs[files[idx]]]
                    /\ UNCHANGED error
    /\ UNCHANGED <<fs, path_exists, git_proj_root_dir, home_config_dir, dirs,
                   files, idx, data, _config, config>>

\* data = f.read(), then the with-block closes f
Read ==
    /\ pc = "read"
    /\ data' = f.content
    /\ f' = Closed
    /\ pc' = "construct"
    /\ UNCHANGED <<fs, path_exists, git_proj_root_dir, home_config_dir, dirs,
                   files, idx, _config, config, error, opened>>

\* Construct with the constructor's exception caught and the file passed over
ConstructLenient ==
    /\ pc = "construct"
    /\ LET file == files[idx]
           fmt  == FormatOf(file)
       IN  IF fmt = "unsupported"
           THEN /\ pc' = "check"
                /\ UNCHANGED <<_config, idx>>
           ELSE IF ParseFails(data)
           THEN /\ pc' = "open"
                /\ idx' = idx + 1
                /\ UNCHANGED _config
           ELSE /\ pc' = "check"
                /\ _config' = Parsed(fmt, data, file)
                /\ UNCHANGED idx
    /\ UNCHANGED <<fs, path_exists, git_proj_root_dir, home_config_dir, dirs,
                   files, f, data, config, error, opened>>

\* the if/elif chain: construct the config of the matching format, if any;
\* a constructor that raises ends load_config
Construct ==
    /\ pc = "construct"
    /\ LET file == files[idx]
           fmt  == FormatOf(file)
       IN  IF fmt = "unsupported"
           THEN /\ pc' = "check"
                /\ UNCHANGED <<_config, error>>
           ELSE IF ParseFails(data)
           THEN /\ pc' = "error"
                /\ error' = [kind |-> "ParseError", path |-> file]
                /\ UNCHANGED _config
           ELSE /\ pc' = "check"
                /\ _config' = Parsed(fmt, data, file)
                /\ UNCHANGED error
    /\ UNCHANGED <<fs, path_exists, git_proj_root_dir, home_config_dir, dirs,
                   files, idx, f, data, config, opened>>

\* the test of line 70 replaced by one that never continues
PassedOverNever(c) == FALSE

\* the test of line 70: is this candidate passed over
PassedOver(c) == c.is_empty_config

\* Check without the break: the scan goes on after a non-empty candidate
CheckNoBreak ==
    /\ pc = "check"
    /\ IF _config = Unbound
       THEN /\ pc' = "error"
            /\ error' = [kind |-> "UnboundLocalError", path |-> files[idx]]
            /\ UNCHANGED <<idx, config>>
       ELSE IF PassedOver(_config)
       THEN /\ pc' = "open"
            /\ idx' = idx + 1
            /\ UNCHANGED <<config, error>>
       ELSE /\ pc' = "open"
            /\ idx' = idx + 1
            /\ config' = _config
            /\ UNCHANGED error
    /\ UNCHANGED <<fs, path_exists, git_proj_root_dir, home_config_dir, dirs,
                   files, f, data, _config, opened>>

\* if _config.is_empty_config: continue / else: config = _config; break
Check ==
    /\ pc = "check"
    /\ IF _config = Unbound
       THEN /\ pc' = "error"
            /\ error' = [kind |-> "UnboundLocalError", path |-> files[idx]]
            /\ UNCHANGED <<idx, config>>
       ELSE IF PassedOver(_config)
       THEN /\ pc' = "open"
            /\ idx' = idx + 1
            /\ UNCHANGED <<config, error>>
       ELSE /\ pc' = "returned"
            /\ config' = _config
            /\ UNCHANGED <<idx, error>>
    /\ UNCHANGED <<fs, path_exists, git_proj_root_dir, home_config_dir, dirs,
                   files, f, data, _config, opened>>

Next ==
    \/ GetConfigDirs
    \/ SearchConfigFiles
    \/ Open
    \/ Read
    \/ Construct
    \/ Check

Spec == Init /\ [][Next]_vars

\* a concurrent process unlinks a candidate file after search_config_files
\* has seen it and before load_config has finished
Delete ==
    /\ pc \in {"open", "read", "construct", "check"}
    /\ \E p \in Range(files) :
          /\ fs[p] \in {"empty", "nonempty", "malformed"}
          /\ fs' = [fs EXCEPT ![p] = "absent"]
    /\ UNCHANGED <<path_exists, git_proj_root_dir, home_config_dir, pc, dirs,
                   files, idx, f, data, _config, config, error, opened>>

NextRace ==
    \/ Next
    \/ Delete

SpecRace == Init /\ [][NextRace]_vars

(***************************************************************************)
(* Properties                                                              *)
(***************************************************************************)
Terminal == pc \in {"returned", "error"}

\* search_config_files has returned a list (it did not raise)
Searched ==
    /\ pc \notin {"get_config_dirs", "search_config_files"}
    /\ error.kind # "TypeError"

KnownFormat(file) == FormatOf(file) # "unsupported"

\* a regular file of a known format whose content parses
ParsesAs(file, content) == fs[file] = content /\ KnownFormat(file)

OpenedPaths == [k \in 1..Len(opened) |-> opened[k].path]

\* position of the first occurrence of d in the sequence s (0 if none)
FirstIndex(s, d) ==
    IF d \in Range(s) THEN CHOOSE k \in 1..Len(s) : s[k] = d /\ \A j \in 1..(k - 1) : s[j] # d
    ELSE 0

(* C1: when the override directory exists and its first present recognized
   file parses as non-empty (anything before it in the catalogue is absent
   or a well-formed empty file of a known format), load_config returns a
   configuration whose origin is a file of the override directory, whatever
   the version-control root and the home directory are or contain. *)
C1_OverrideHasNonEmpty ==
    /\ path_exists
    /\ \E k \in 1..Len(config_files) :
          /\ ParsesAs(Join(self_path, config_files[k]), "nonempty")
          /\ \A j \in 1..(k - 1) :
                \/ fs[Join(self_path, config_files[j])] = "absent"
                \/ ParsesAs(Join(self_path, config_files[j]), "empty")

C1_OverrideSelected ==
    (Terminal /\ C1_OverrideHasNonEmpty)
        => (pc = "returned" /\ config.path.dir = self_path)

(* C2: when every candidate of `files` is a regular file of a known format
   that parses, load_config returns the first candidate that is not empty,
   and returns the default BaseConfig with no origin path exactly when there
   is no candidate or every candidate is empty. *)
C2_AllParse ==
    \A k \in 1..Len(files) : ParsesAs(files[k], "empty") \/ ParsesAs(files[k], "nonempty")

C2_NonEmptyAt == {k \in 1..Len(files) : fs[files[k]] = "nonempty"}

C2_FirstNonEmptyReturned ==
    (Terminal /\ Searched /\ C2_AllParse) =>
        /\ pc = "returned"
        /\ (config.path = NoPath) <=> (C2_NonEmptyAt = {})
        /\ C2_NonEmptyAt = {} => config = BaseConfig
        /\ C2_NonEmptyAt # {} =>
              LET m == CHOOSE k \in C2_NonEmptyAt : \A j \in C2_NonEmptyAt : k <= j
              IN  /\ config.path = files[m]
                  /\ ~config.is_empty_config
                  /\ config.fmt = FormatOf(files[m])

C2_Witness ==
    /\ pc = "returned"
    /\ C2_AllParse
    /\ Len(files) >= 2
    /\ fs[files[1]] = "empty"
    /\ config.path = files[2]
    /\ files[1] # files[2]

(* C3: search_config_files returns exactly the paths dir/basename that are
   regular files, directory-major and basename-minor; a directory carrying a
   recognized basename is not emitted. *)
IsRegularFile(file) == fs[file] \in {"empty", "nonempty", "malformed"}

RECURSIVE C3_RegularOfDir(_, _)
C3_RegularOfDir(dir, k) ==
    IF k > Len(config_files) THEN <<>>
    ELSE (IF IsRegularFile(Join(dir, config_files[k]))
          THEN <<Join(dir, config_files[k])>> ELSE <<>>)
         \o C3_RegularOfDir(dir, k + 1)

RECURSIVE C3_Locate(_)
C3_Locate(ds) ==
    IF ds = <<>> THEN <<>> ELSE C3_RegularOfDir(Head(ds), 1) \o C3_Locate(Tail(ds))

C3_ExactlyRegularFilesInOrder == Searched => files = C3_Locate(dirs)

(* C4: in the directory list of get_config_dirs the version-control root
   comes before the home configuration directory, and when both hold a
   non-empty recognized file and the override directory contributes no
   candidate, load_config returns the file of the version-control root. *)
C4_RootBeforeHome ==
    (pc # "get_config_dirs" /\ git_proj_root_dir # None
        /\ git_proj_root_dir # home_config_dir) =>
        /\ FirstIndex(dirs, git_proj_root_dir) < FirstIndex(dirs, home_config_dir)
        /\ (/\ pc = "returned"
            /\ \A n \in Names : fs[Join(self_path, n)] = "absent"
            /\ \E n \in Names : ParsesAs(Join(git_proj_root_dir, n), "nonempty")
            /\ \E n \in Names : ParsesAs(Join(home_config_dir, n), "nonempty"))
           => config.path.dir = git_proj_root_dir

(* C5: when a candidate of a known format is malformed and every candidate
   before it is a well-formed empty file of a known format, load_config ends
   with a parse error that names the malformed file; it returns neither a
   later candidate nor the default configuration. *)
C5_MalformedExamined(k) ==
    /\ ParsesAs(files[k], "malformed")
    /\ \A j \in 1..(k - 1) : ParsesAs(files[j], "empty")

C5_ParseErrorSurfaces ==
    \A k \in 1..Len(files) :
        (Terminal /\ Searched /\ C5_MalformedExamined(k)) =>
            /\ pc = "error"
            /\ error = [kind |-> "ParseError", path |-> files[k]]
            /\ config = BaseConfig

C5_Witness ==
    /\ pc = "error"
    /\ error.kind = "ParseError"
    /\ idx >= 2
    /\ C5_MalformedExamined(idx)
    /\ error.path # files[1]

(* C6: a candidate whose suffix holds none of "toml", "json", "yaml" is
   skipped at every position: the emptiness test never reads a value that
   was not built from the current file, and the load does not fail on it. *)
C6_UnsupportedSkipped ==
    /\ pc = "check" => _config.path = files[idx]
    /\ pc = "error" => error.kind # "UnboundLocalError"

(* C7: when no project root is found, the directory list holds no None
   entry and load_config does not fail on it. *)
C7_NoRootNoEntry ==
    git_proj_root_dir = None =>
        /\ None \notin Range(dirs)
        /\ pc = "error" => error.kind # "TypeError"

(* C8: every open() that finds its file gone is the last one made and ends
   load_config with that IO error, naming the file; the load never goes on
   to a later candidate or returns a configuration after it. *)
C8_VanishedFileIsIOError ==
    \A k \in 1..Len(opened) :
        opened[k].result = "FileNotFoundError" =>
            /\ k = Len(opened)
            /\ pc = "error"
            /\ error = [kind |-> "FileNotFoundError", path |-> opened[k].path]
            /\ config = BaseConfig

C8_Witness ==
    /\ pc = "error"
    /\ error.kind = "FileNotFoundError"
    /\ fs[error.path] = "absent"
    /\ error.path \in Range(files)
    /\ \E k \in 1..Len(files) : k > idx /\ fs[files[k]] = "nonempty"

(* C9: candidates are opened strictly in enumeration order, no file is open
   when the next one is opened or when load_config ends, and once a
   non-empty candidate is selected the files opened are exactly the prefix
   of `files` that ends at it. *)
C9_OpenedIsPrefixToSelected ==
    /\ pc \in {"open", "returned", "error"} => f = Closed
    /\ Len(opened) <= Len(files)
    /\ OpenedPaths = SubSeq(files, 1, Len(opened))
    /\ (pc = "returned" /\ config.path # NoPath) =>
          /\ Len(opened) >= 1
          /\ files[Len(opened)] = config.path

C9_Witness ==
    /\ pc = "returned"
    /\ config.path # NoPath
    /\ Len(opened) < Len(files)
    /\ fs[files[Len(files)]] = "malformed"
    /\ KnownFormat(files[Len(files)])

(* C10: the directory list of get_config_dirs holds no directory twice, so
   no candidate path is handed to open() twice in one load_config call. *)
C10_NoDuplicateDirs ==
    /\ \A j, k \in 1..Len(dirs) : j # k => dirs[j] # dirs[k]
    /\ \A j, k \in 1..Len(opened) : j # k => opened[j].path # opened[k].path
====
